---- MODULE Spec2Model ----
(***************************************************************************)
(* Model of backend/scenario_generator.py (generate_scenario,              *)
(* build_voice_agent_system_prompt) and backend/app.py                     *)
(* (api_scenarios_generate).                                               *)
(*                                                                         *)
(* Python values are tagged records (t = "null", "str", "num", "list",     *)
(* "dict"); a dict carries a function d from its keys to values.  A text   *)
(* made of lines is a sequence of strings, the text split at "\n"; the     *)
(* empty text is <<"">>.  The raw text of a JSON document is a sequence    *)
(* of tokens, parsed by JsonLoads.  A difficulty is a sequence of          *)
(* characters, so that strip() and lower() are computed.                   *)
(***************************************************************************)
EXTENDS Integers, Sequences, FiniteSets, TLC

\* --------------------------------------------------------------------------
\* Bounds of the model
\* --------------------------------------------------------------------------

\* Longest list (critical_info, withheld_information, ...) in a sample payload.
MaxItems == 2

\* --------------------------------------------------------------------------
\* Python values
\* --------------------------------------------------------------------------

JNull == [t |-> "null"]

JStr(s) == [t |-> "str", s |-> s]

JNum(n) == [t |-> "num", n |-> n]

JList(items) == [t |-> "list", items |-> items]

JDict(d) == [t |-> "dict", d |-> d]

EmptyDict == JDict(<<>>)

IsDict(v) == v.t = "dict"

IsList(v) == v.t = "list"

\* bool(v): None, "", 0, [] and {} are falsy.
Truthy(v) ==
    CASE v.t = "null" -> FALSE
      [] v.t = "str"  -> v.s # ""
      [] v.t = "num"  -> v.n # 0
      [] v.t = "list" -> v.items # <<>>
      [] v.t = "dict" -> DOMAIN v.d # {}

\* v.get(k) on a dict: the value, or None when the key is missing.
Get(v, k) == IF IsDict(v) /\ k \in DOMAIN v.d THEN v.d[k] ELSE JNull

\* v.get(k, default) on a dict: a key that is present wins, even when None.
GetDefault(v, k, default) == IF IsDict(v) /\ k \in DOMAIN v.d THEN v.d[k] ELSE default

\* a or b
Or(a, b) == IF Truthy(a) THEN a ELSE b

\* d[k] = v on a dict (a non-dict is left alone: callers test IsDict first).
SetItem(v, k, x) ==
    IF IsDict(v)
    THEN JDict([y \in DOMAIN v.d \cup {k} |-> IF y = k THEN x ELSE v.d[y]])
    ELSE v

\* str(v) as an f-string interpolates it.
Str(v) ==
    CASE v.t = "str"  -> v.s
      [] v.t = "num"  -> ToString(v.n)
      [] v.t = "null" -> "None"

\* --------------------------------------------------------------------------
\* JSON text: tokens and json.loads
\* --------------------------------------------------------------------------

Tok(k, v) == [k |-> k, v |-> v]

P(c) == Tok(c, JNull)

Lit(v) == Tok("lit", v)

\* An unquoted word, which no JSON grammar rule accepts.
Bare == Tok("bare", JNull)

ParseFail == [ok |-> FALSE, v |-> JNull, rest |-> <<>>]

ParseOk(v, rest) == [ok |-> TRUE, v |-> v, rest |-> rest]

RECURSIVE ParseValue(_), ParseMembers(_, _), ParseElems(_, _)

\* One JSON value at the head of ts.
ParseValue(ts) ==
    IF ts = <<>> THEN ParseFail
    ELSE LET h == Head(ts) IN
         CASE h.k = "lit" -> ParseOk(h.v, Tail(ts))
           [] h.k = "{" ->
                IF Len(ts) >= 2 /\ ts[2].k = "}"
                THEN ParseOk(EmptyDict, SubSeq(ts, 3, Len(ts)))
                ELSE ParseMembers(Tail(ts), <<>>)
           [] h.k = "[" ->
                IF Len(ts) >= 2 /\ ts[2].k = "]"
                THEN ParseOk(JList(<<>>), SubSeq(ts, 3, Len(ts)))
                ELSE ParseElems(Tail(ts), <<>>)
           [] OTHER -> ParseFail

\* "key": value pairs up to the closing brace; a repeated key keeps the last value.
ParseMembers(ts, acc) ==
    IF Len(ts) < 3 \/ ts[1].k # "lit" \/ ts[1].v.t # "str" \/ ts[2].k # ":"
    THEN ParseFail
    ELSE LET r == ParseValue(SubSeq(ts, 3, Len(ts))) IN
         IF ~r.ok \/ r.rest = <<>> THEN ParseFail
         ELSE LET key  == ts[1].v.s
                  acc2 == [y \in DOMAIN acc \cup {key} |->
                              IF y = key THEN r.v ELSE acc[y]]
              IN CASE Head(r.rest).k = "}" -> ParseOk(JDict(acc2), Tail(r.rest))
                   [] Head(r.rest).k = "," -> ParseMembers(Tail(r.rest), acc2)
                   [] OTHER -> ParseFail

\* Values up to the closing bracket.
ParseElems(ts, acc) ==
    LET r == ParseValue(ts) IN
    IF ~r.ok \/ r.rest = <<>> THEN ParseFail
    ELSE CASE Head(r.rest).k = "]" -> ParseOk(JList(Append(acc, r.v)), Tail(r.rest))
           [] Head(r.rest).k = "," -> ParseElems(Tail(r.rest), Append(acc, r.v))
           [] OTHER -> ParseFail

\* json.loads(text): the whole text must be one value; otherwise JSONDecodeError.
JsonLoads(ts) ==
    LET r == ParseValue(ts) IN
    IF r.ok /\ r.rest = <<>> THEN [ok |-> TRUE, v |-> r.v]
    ELSE [ok |-> FALSE, v |-> JNull]

RECURSIVE KeySeq(_)

\* The keys of a dict in some fixed order.
KeySeq(S) == IF S = {} THEN <<>>
             ELSE LET k == CHOOSE x \in S : TRUE IN <<k>> \o KeySeq(S \ {k})

RECURSIVE Dumps(_), DumpMembers(_, _), DumpElems(_)

\* The JSON text of a value, as the generation collaborator writes it.
Dumps(v) ==
    CASE v.t = "dict" -> <<P("{")>> \o DumpMembers(v.d, KeySeq(DOMAIN v.d)) \o <<P("}")>>
      [] v.t = "list" -> <<P("[")>> \o DumpElems(v.items) \o <<P("]")>>
      [] OTHER -> <<Lit(v)>>

DumpMembers(d, ks) ==
    IF ks = <<>> THEN <<>>
    ELSE <<Lit(JStr(Head(ks))), P(":")>> \o Dumps(d[Head(ks)])
         \o (IF Len(ks) > 1 THEN <<P(",")>> ELSE <<>>)
         \o DumpMembers(d, Tail(ks))

DumpElems(items) ==
    IF items = <<>> THEN <<>>
    ELSE Dumps(Head(items))
         \o (IF Len(items) > 1 THEN <<P(",")>> ELSE <<>>)
         \o DumpElems(Tail(items))

\* --------------------------------------------------------------------------
\* Difficulty strings (sequences of characters)
\* --------------------------------------------------------------------------

Easy == <<"e", "a", "s", "y">>

Medium == <<"m", "e", "d", "i", "u", "m">>

Hard == <<"h", "a", "r", "d">>

UpperCase == <<"A", "B", "C", "D", "E", "F", "G", "H", "I", "J", "K", "L", "M",
               "N", "O", "P", "Q", "R", "S", "T", "U", "V", "W", "X", "Y", "Z">>

LowerCase == <<"a", "b", "c", "d", "e", "f", "g", "h", "i", "j", "k", "l", "m",
               "n", "o", "p", "q", "r", "s", "t", "u", "v", "w", "x", "y", "z">>

Whitespace == {" ", "\t", "\n", "\r"}

LowerChar(c) ==
    IF \E i \in 1..Len(UpperCase) : UpperCase[i] = c
    THEN LowerCase[CHOOSE i \in 1..Len(UpperCase) : UpperCase[i] = c]
    ELSE c

\* s.lower()
Lower(s) == [i \in 1..Len(s) |-> LowerChar(s[i])]

RECURSIVE LStrip(_), RStrip(_)

LStrip(s) == IF s # <<>> /\ Head(s) \in Whitespace THEN LStrip(Tail(s)) ELSE s

RStrip(s) == IF s # <<>> /\ s[Len(s)] \in Whitespace
             THEN RStrip(SubSeq(s, 1, Len(s) - 1)) ELSE s

\* s.strip()
Strip(s) == RStrip(LStrip(s))

\* --------------------------------------------------------------------------
\* generate_scenario
\* --------------------------------------------------------------------------

NoResult == [kind |-> "none", payload |-> JNull, cls |-> "", msg |-> ""]

Return(payload) == [kind |-> "return", payload |-> payload, cls |-> "", msg |-> ""]

Raise(cls, msg) == [kind |-> "raise", payload |-> JNull, cls |-> cls, msg |-> msg]

DifficultyMsg == "difficulty must be one of: easy, medium, hard"

ApiKeyMsg == "OPENAI_API_KEY environment variable is not set"


\* ValidDifficulty with "hard" left out of the tuple.
ValidDifficulty_NoHard(d) == d \in {Easy, Medium}

\* difficulty in ("easy", "medium", "hard")
ValidDifficulty(d) == d \in {Easy, Medium, Hard}


\* HasApiKey with the test "api_key is not None".
HasApiKey_NotNone(key) == key # JNull

\* os.environ.get("OPENAI_API_KEY") is truthy
HasApiKey(key) == Truthy(key)

\* scenario = payload.get("scenario", {})
ScenarioRecord(payload) == GetDefault(payload, "scenario", EmptyDict)


\* RepairId that builds a new record around the generated id.
RepairId_NewRecord(scenario, u) ==
    IF ~Truthy(Get(scenario, "id"))
    THEN JDict([id |-> JStr("scenario-" \o u)])
    ELSE scenario

\* if not scenario.get("id"): scenario["id"] = f"scenario-{uuid.uuid4().hex[:8]}"
RepairId(scenario, u) ==
    IF ~Truthy(Get(scenario, "id"))
    THEN SetItem(scenario, "id", JStr("scenario-" \o u))
    ELSE scenario

\* ForceLanguage with the test "if not scenario.get('language')".
ForceLanguage_OnlyIfMissing(scenario) ==
    IF ~Truthy(Get(scenario, "language"))
    THEN SetItem(scenario, "language", JStr("en"))
    ELSE scenario

\* if scenario.get("language") != "en": scenario["language"] = "en"
ForceLanguage(scenario) ==
    IF Get(scenario, "language") # JStr("en")
    THEN SetItem(scenario, "language", JStr("en"))
    ELSE scenario

\* payload["scenario"] = scenario
WriteBack(payload, scenario) == SetItem(payload, "scenario", scenario)

\* Lines 221-228 on the parsed payload; .get on a value that is no dict raises.
Normalize(payload, u) ==
    IF ~IsDict(payload)
    THEN Raise("AttributeError", "object has no attribute 'get'")
    ELSE LET scenario == ScenarioRecord(payload) IN
         IF ~IsDict(scenario)
         THEN Raise("AttributeError", "object has no attribute 'get'")
         ELSE Return(WriteBack(payload, ForceLanguage(RepairId(scenario, u))))

\* What the collaborator's call produced: an API error, or a message content.
ApiError == [kind |-> "error", text |-> <<>>]

ContentNone == [kind |-> "none", text |-> <<>>]

ContentText(ts) == [kind |-> "text", text |-> ts]

NoResponse == [kind |-> "pending", text |-> <<>>]

\* Lines 207-228 once the call has come back.
AfterCall(resp, u) ==
    CASE resp.kind = "error" -> Raise("APIError", "collaborator error")
      [] resp.kind = "none"  -> Raise("TypeError", "the JSON object must be str, bytes or bytearray, not NoneType")
      [] resp.kind = "text"  ->
            LET r == JsonLoads(resp.text) IN
            IF ~r.ok THEN Raise("JSONDecodeError", "Expecting value")
            ELSE Normalize(r.v, u)

\* isinstance(e, ValueError): json.JSONDecodeError subclasses ValueError.
IsValueError(cls) == cls \in {"ValueError", "JSONDecodeError"}

\* --------------------------------------------------------------------------
\* build_voice_agent_system_prompt
\* --------------------------------------------------------------------------

\* "\n".join(f"- {item}" for item in items)
Bullets(items) == [i \in 1..Len(items) |-> "- " \o Str(items[i])]

\* payload.get("role_instruction") or "" ; if role: ...
RolePart(payload) ==
    LET role == Or(Get(payload, "role_instruction"), JStr("")) IN
    IF Truthy(role) THEN << <<"## Role", Str(role)>> >> ELSE <<>>

\* ScenarioOf written as in generate_scenario: payload.get("scenario", {}).
ScenarioOf_GetDefault(payload) == GetDefault(payload, "scenario", EmptyDict)

\* scenario = payload.get("scenario") or {}
ScenarioOf(payload) == Or(Get(payload, "scenario"), EmptyDict)

\* caller_profile = scenario.get("caller_profile") or {}
CallerProfileOf(scenario) == Or(Get(scenario, "caller_profile"), EmptyDict)

ProfileKeys == <<"name", "age", "emotion", "gender", "race", "other_relevant_details">>

RECURSIVE ProfileLines_IfVal(_, _)

\* ProfileLines with the test "if val".
ProfileLines_IfVal(profile, keys) ==
    IF keys = <<>> THEN <<>>
    ELSE LET key == Head(keys)
             val == Get(profile, key)
         IN (IF Truthy(val)
             THEN <<"- " \o key \o ": " \o Str(val)>>
             ELSE <<>>)
            \o ProfileLines_IfVal(profile, Tail(keys))

RECURSIVE ProfileLines(_, _)

\* for key in (...): val = caller_profile.get(key); if val is not None and val != "": ...
ProfileLines(profile, keys) ==
    IF keys = <<>> THEN <<>>
    ELSE LET key == Head(keys)
             val == Get(profile, key)
         IN (IF val # JNull /\ val # JStr("")
             THEN <<"- " \o key \o ": " \o Str(val)>>
             ELSE <<>>)
            \o ProfileLines(profile, Tail(keys))

\* if profile_parts: parts.append("## Caller personal details\n" + "\n".join(profile_parts))
ProfilePart(payload) ==
    LET profile_parts == ProfileLines(CallerProfileOf(ScenarioOf(payload)), ProfileKeys) IN
    IF profile_parts # <<>>
    THEN << <<"## Caller personal details">> \o profile_parts >>
    ELSE <<>>

SummaryPart(payload) ==
    LET summary == Or(Get(payload, "scenario_summary_for_agent"), JStr("")) IN
    IF Truthy(summary)
    THEN << <<"## Scenario summary (ground truth)", Str(summary)>> >>
    ELSE <<>>

\* CriticalPart that falls back on scenario.critical_info.
CriticalPart_ScenarioFallback(payload) ==
    LET critical == Or(Get(payload, "critical_info"),
                       Get(ScenarioOf(payload), "critical_info")) IN
    IF IsList(critical) /\ Truthy(critical)
    THEN << <<"## Critical information to convey (reveal when the operator asks; do not dump all at once)">>
            \o Bullets(critical.items) >>
    ELSE <<>>

\* if isinstance(critical, list) and critical: ...
CriticalPart(payload) ==
    LET critical == Get(payload, "critical_info") IN
    IF IsList(critical) /\ Truthy(critical)
    THEN << <<"## Critical information to convey (reveal when the operator asks; do not dump all at once)">>
            \o Bullets(critical.items) >>
    ELSE <<>>

WithheldPart(payload) ==
    LET withheld == Get(payload, "withheld_information") IN
    IF IsList(withheld) /\ Truthy(withheld)
    THEN << <<"## Details that emerge with operator probing">>
            \o Bullets(withheld.items)
            \o <<"These are NOT things you are purposely hiding. They are contextual details that help the operator understand the situation better; they simply don't come up until the operator asks the right questions (e.g. suspect description, layout, who else is present). When the operator probes or asks relevant questions, provide these details naturally.">> >>
    ELSE <<>>

\* persona = payload.get("persona") or {}
PersonaOf(payload) == Or(Get(payload, "persona"), EmptyDict)

VoicePart(payload) ==
    LET voice_desc == Or(Get(PersonaOf(payload), "voice_description"), JStr("")) IN
    IF Truthy(voice_desc)
    THEN << <<"## Voice / how to speak", "You sound like: " \o Str(voice_desc)>> >>
    ELSE <<>>

DialoguePart(payload) ==
    LET dialogue_dir == Or(Get(payload, "dialogue_directions"), JStr("")) IN
    IF Truthy(dialogue_dir)
    THEN << <<"## Dialogue / acting directions", Str(dialogue_dir)>> >>
    ELSE <<>>

ResponsePart(payload) ==
    LET response_beh == Get(payload, "response_behavior") IN
    IF IsList(response_beh) /\ Truthy(response_beh)
    THEN << <<"## How to react to the operator">> \o Bullets(response_beh.items) >>
    ELSE <<>>

OpeningPart(payload) ==
    LET opening == Or(Get(payload, "opening_line"), JStr("")) IN
    IF Truthy(opening)
    THEN << <<"## Opening line",
              "When the call connects, start with something like: \"" \o Str(opening) \o "\"">> >>
    ELSE <<>>

DoNotPart(payload) ==
    LET do_not == Get(payload, "do_not_say") IN
    IF IsList(do_not) /\ Truthy(do_not)
    THEN << <<"## Do NOT say (stay in character)">> \o Bullets(do_not.items) >>
    ELSE <<>>

BehaviorPart(payload) ==
    LET behavior == Or(Get(payload, "behavior_notes"), JStr("")) IN
    IF Truthy(behavior)
    THEN << <<"## Behavioral notes", Str(behavior)>> >>
    ELSE <<>>

\* Parts with the last two appends in the other order.
Parts_NotesBeforeDoNot(payload) ==
    RolePart(payload) \o ProfilePart(payload) \o SummaryPart(payload)
    \o CriticalPart(payload) \o WithheldPart(payload) \o VoicePart(payload)
    \o DialoguePart(payload) \o ResponsePart(payload) \o OpeningPart(payload)
    \o BehaviorPart(payload) \o DoNotPart(payload)

\* The list parts, in the order of the appends.
Parts(payload) ==
    RolePart(payload) \o ProfilePart(payload) \o SummaryPart(payload)
    \o CriticalPart(payload) \o WithheldPart(payload) \o VoicePart(payload)
    \o DialoguePart(payload) \o ResponsePart(payload) \o OpeningPart(payload)
    \o DoNotPart(payload) \o BehaviorPart(payload)

RECURSIVE Join(_)

\* "\n\n".join(parts), for a non-empty parts: one empty line between two parts.
Join(parts) ==
    IF Len(parts) = 1 THEN parts[1]
    ELSE parts[1] \o <<"">> \o Join(Tail(parts))

EmptyText == <<"">>

NoPrompt == [kind |-> "none", text |-> <<>>, cls |-> ""]

PromptText(text) == [kind |-> "return", text |-> text, cls |-> ""]

PromptRaise(cls) == [kind |-> "raise", text |-> <<>>, cls |-> cls]

\* The receivers of .get: payload, scenario, caller_profile, persona.
GetReceivers(payload) ==
    <<payload, ScenarioOf(payload), CallerProfileOf(ScenarioOf(payload)), PersonaOf(payload)>>

\* build_voice_agent_system_prompt(payload): .get on a value that is no dict raises
\* AttributeError; otherwise return "\n\n".join(parts) if parts else "".
BuildPrompt(payload) ==
    IF \E i \in 1..4 : ~IsDict(GetReceivers(payload)[i])
    THEN PromptRaise("AttributeError")
    ELSE LET parts == Parts(payload) IN
         PromptText(IF parts # <<>> THEN Join(parts) ELSE EmptyText)

\* --------------------------------------------------------------------------
\* api_scenarios_generate
\* --------------------------------------------------------------------------

\* A str held as its characters (the request's difficulty).
DStr(chars) == [t |-> "chars", s |-> chars]

IsStr(v) == v.t \in {"chars", "str"}

NoHttp == [status |-> 0, payload |-> JNull, error |-> ""]

HttpJson(payload) == [status |-> 200, payload |-> payload, error |-> ""]

HttpError(status, error) == [status |-> status, payload |-> JNull, error |-> error]

MissingDifficultyMsg == "Missing or invalid 'difficulty'. Use { \"difficulty\": \"easy\" | \"medium\" | \"hard\" }."

\* body = request.get_json(silent=True) or {} ; difficulty = body.get("difficulty")
BodyDifficulty(body) == Get(Or(body, EmptyDict), "difficulty")

\* not difficulty or not isinstance(difficulty, str)
DifficultyRejected(dv) ==
    (IF dv.t = "chars" THEN dv.s = <<>> ELSE ~Truthy(dv)) \/ ~IsStr(dv)

\* difficulty.strip().lower()
CleanDifficulty(chars) == Lower(Strip(chars))

\* The try block's answer to what generate_scenario did.
RespondTo(res) ==
    CASE res.kind = "return" -> HttpJson(res.payload)
      [] res.kind = "raise" /\ IsValueError(res.cls) -> HttpError(400, res.msg)
      [] res.kind = "raise" /\ ~IsValueError(res.cls) ->
            HttpError(500, "Scenario generation failed: " \o res.msg)

\* --------------------------------------------------------------------------
\* Sample inputs
\* --------------------------------------------------------------------------

\* Marks a key that a sample record leaves out.
Absent == [t |-> "absent"]

\* The dict of f's keys whose value is not Absent.
Obj(f) == JDict([k \in {y \in DOMAIN f : f[y] # Absent} |-> f[k]])

\* A list of n strings.
Items(prefix, n) == JList([i \in 1..n |-> JStr(prefix \o ToString(i))])

ApiKeySamples == {JNull, JStr(""), JStr("sk-test")}

DifficultySamples ==
    {Easy, Medium, Hard, <<>>, <<"E", "a", "s", "y">>, <<"e", "x", "p", "e", "r", "t">>,
     <<" ", "H", "A", "R", "D", " ">>}

BodySamples ==
    {JNull, EmptyDict, JDict([difficulty |-> JNull]), JDict([difficulty |-> JNum(3)])}
    \cup {JDict([difficulty |-> DStr(d)]) : d \in DifficultySamples \cup {<<" ">>}}

\* uuid.uuid4().hex[:8]
UuidHex == {"0a1b2c3d", "9f8e7d6c"}

IdSamples == {Absent, JNull, JStr(""), JNum(0), JStr("fire-01"), JNum(7)}

LanguageSamples == {Absent, JNull, JStr("en"), JStr("es"), JStr(""), JNum(5)}

SampleProfile ==
    JDict([name |-> JStr("Maria"), age |-> JNum(34), emotion |-> JStr("panicked"),
           gender |-> JStr("female"), race |-> JStr("Hispanic")])

ScenarioSamples ==
    {Absent, JNull, JStr("oops")}
    \cup {Obj([id |-> i, language |-> l, title |-> JStr("Kitchen fire"),
               caller_profile |-> SampleProfile, difficulty |-> JStr("easy")]) :
            i \in IdSamples, l \in LanguageSamples}
    \cup {Obj([id |-> i, language |-> l]) : i \in IdSamples, l \in LanguageSamples}

\* Objects as the response schema describes them, whole or in part.
GeneratedPayloads ==
    {Obj([scenario |-> s]) : s \in ScenarioSamples}
    \cup {Obj([scenario |-> s,
               persona |-> JDict([stability |-> JNum(1), voice_description |-> JStr("calm, clear")]),
               caller_script |-> Items("line ", n),
               role_instruction |-> JStr("You are Maria, 34, calling about a kitchen fire."),
               scenario_summary_for_agent |-> JStr("A pan caught fire."),
               critical_info |-> Items("fact ", n),
               behavior_notes |-> JStr("May repeat herself."),
               opening_line |-> JStr("Help, my kitchen is on fire!")]) :
            s \in ScenarioSamples, n \in 1..MaxItems}

\* Texts that are JSON but no object.
NonObjectTexts == {Dumps(JList(<<JNum(1)>>)), Dumps(JNull), <<Lit(JStr("scenario"))>>}

\* Texts json.loads rejects: "", "{not json", an object cut short, two objects.
MalformedTexts ==
    {<<>>, <<P("{"), Bare>>, <<P("{"), Lit(JStr("scenario")), P(":")>>,
     Dumps(EmptyDict) \o Dumps(EmptyDict)}

RawTexts == {Dumps(v) : v \in GeneratedPayloads} \cup NonObjectTexts \cup MalformedTexts

Responses == {ApiError, ContentNone} \cup {ContentText(ts) : ts \in RawTexts}

\* The eleven sections of the prompt, by position.
Sections == 1..11

AbsentStyles == {"missing", "null", "empty"}

\* How a sample leaves a field without data: no key, None, or an empty value.
AbsentAs(style, kind) ==
    CASE style = "missing" -> Absent
      [] style = "null" -> JNull
      [] style = "empty" /\ kind = "str" -> JStr("")
      [] style = "empty" /\ kind = "list" -> JList(<<>>)
      [] style = "empty" /\ kind = "dict" -> JDict([name |-> JStr(""), age |-> JNull])

FullProfile ==
    JDict([name |-> JStr("Maria"), age |-> JNum(34), emotion |-> JStr("panicked"),
           gender |-> JStr("female"), race |-> JStr("Hispanic"),
           other_relevant_details |-> JStr("speaks with an accent")])

\* Caller profiles that have at least one detail.
ProfileSamples ==
    {FullProfile,
     JDict([name |-> JStr(""), age |-> JNum(0), emotion |-> JNull, race |-> JStr("Asian")])}

\* A payload with data for the sections of present and none for the others.
SamplePayload(present, style, n, profile) ==
    LET F(sec, kind, val) == IF sec \in present THEN val ELSE AbsentAs(style, kind) IN
    Obj([role_instruction |-> F(1, "str", JStr("You are Maria, 34, calling about a kitchen fire.")),
         scenario |-> Obj([id |-> JStr("fire-01"), language |-> JStr("en"),
                           caller_profile |-> F(2, "dict", profile),
                           critical_info |-> Items("scene fact ", 1)]),
         scenario_summary_for_agent |-> F(3, "str", JStr("A pan caught fire.")),
         critical_info |-> F(4, "list", Items("fact ", n)),
         withheld_information |-> F(5, "list", Items("detail ", n)),
         persona |-> Obj([stability |-> JNum(1),
                          voice_description |-> F(6, "str", JStr("calm, clear"))]),
         dialogue_directions |-> F(7, "str", JStr("Speak in short sentences.")),
         response_behavior |-> F(8, "list", Items("rule ", n)),
         opening_line |-> F(9, "str", JStr("Help, my kitchen is on fire!")),
         do_not_say |-> F(10, "list", Items("phrase ", n)),
         behavior_notes |-> F(11, "str", JStr("May repeat herself."))])

\* What a caller profile may hold for a text field, and for age.
TextChoices(val) == {Absent, JNull, JStr(""), JStr(val)}

AgeChoices == {Absent, JNull, JNum(0), JNum(34)}

\* A payload around a caller profile: alone, or between a role and a summary.
ProfilePayload(profile, framed) ==
    Obj([role_instruction |-> IF framed THEN JStr("You are the caller.") ELSE Absent,
         scenario |-> JDict([caller_profile |-> profile]),
         scenario_summary_for_agent |-> IF framed THEN JStr("A pan caught fire.") ELSE Absent])

\* Payloads whose records are missing, None, empty or of another type.
SpecialPayloads ==
    {EmptyDict,
     JDict([scenario |-> JNull, persona |-> JNull, critical_info |-> JNull]),
     JDict([scenario |-> JStr(""), persona |-> JList(<<>>), do_not_say |-> JNum(0)]),
     JDict([scenario |-> EmptyDict, persona |-> EmptyDict]),
     JDict([scenario |-> JDict([caller_profile |-> JNum(0)])]),
     JDict([critical_info |-> JStr("not a list"), role_instruction |-> JNum(7)]),
     JDict([critical_info |-> JList(<<JStr("Address is 12 Oak St"), JStr("Fire is in the kitchen")>>)]),
     JDict([scenario |-> JStr("oops")]),
     JDict([persona |-> JNum(5)]),
     JDict([scenario |-> JDict([caller_profile |-> JStr("x")])]),
     JNull}

\* --------------------------------------------------------------------------
\* State
\* --------------------------------------------------------------------------

VARIABLES
    pc,          \* "idle", "awaiting" (call sent), "done" (generate_scenario ended),
                 \* "responded" (HTTP answer sent), "composed" (prompt built)
    caller,      \* "none", "direct", "http", "compose"
    apiKey,      \* os.environ.get("OPENAI_API_KEY")
    request,     \* the HTTP request's body as get_json(silent=True) gives it
    difficulty,  \* generate_scenario's argument
    calls,       \* calls of client.chat.completions.create made
    response,    \* what the call produced
    result,      \* how generate_scenario ended
    http,        \* the HTTP response
    payloadIn,   \* build_voice_agent_system_prompt's argument
    prompt       \* how build_voice_agent_system_prompt ended

vars == <<pc, caller, apiKey, request, difficulty, calls, response, result, http,
          payloadIn, prompt>>

Init ==
    /\ pc = "idle"
    /\ caller = "none"
    /\ apiKey = JNull
    /\ request = JNull
    /\ difficulty = <<>>
    /\ calls = 0
    /\ response = NoResponse
    /\ result = NoResult
    /\ http = NoHttp
    /\ payloadIn = JNull
    /\ prompt = NoPrompt

\* generate_scenario up to the outbound call (lines 198-215); the API key is
\* whatever the environment holds when it is read.
Enter(d) ==
    /\ difficulty' = d
    /\ apiKey' \in ApiKeySamples
    /\ IF ~ValidDifficulty(d)
       THEN /\ result' = Raise("ValueError", DifficultyMsg)
            /\ pc' = "done"
            /\ calls' = calls
       ELSE IF ~HasApiKey(apiKey')
       THEN /\ result' = Raise("ValueError", ApiKeyMsg)
            /\ pc' = "done"
            /\ calls' = calls
       ELSE /\ result' = NoResult
            /\ pc' = "awaiting"
            /\ calls' = calls + 1

\* A direct call generate_scenario(d).
GenerateScenario ==
    /\ pc = "idle"
    /\ \E d \in DifficultySamples : Enter(d)
    /\ caller' = "direct"
    /\ UNCHANGED <<request, response, http, payloadIn, prompt>>

\* The handler answers by itself, without calling generate_scenario.
Answer(resp) ==
    /\ http' = resp
    /\ pc' = "responded"
    /\ UNCHANGED <<apiKey, difficulty, calls, result>>

\* POST /api/scenarios/generate up to generate_scenario's outbound call
\* (lines 21-29): a missing or invalid difficulty is answered with 400.
ApiScenariosGenerate ==
    /\ pc = "idle"
    /\ \E body \in BodySamples :
          /\ request' = body
          /\ LET dv == BodyDifficulty(body) IN
             IF DifficultyRejected(dv)
             THEN Answer(HttpError(400, MissingDifficultyMsg))
             ELSE IF ~ValidDifficulty(CleanDifficulty(dv.s))
             THEN Answer(HttpError(400, DifficultyMsg))
             ELSE Enter(CleanDifficulty(dv.s)) /\ http' = http
    /\ caller' = "http"
    /\ UNCHANGED <<response, payloadIn, prompt>>

\* The collaborator answers and generate_scenario runs to its end (lines 207-228).
CallReturns ==
    /\ pc = "awaiting"
    /\ \E resp \in Responses, u \in UuidHex :
          /\ response' = resp
          /\ result' = AfterCall(resp, u)
    /\ pc' = "done"
    /\ UNCHANGED <<caller, apiKey, request, difficulty, calls, http, payloadIn, prompt>>

\* Lines 28-34: the handler answers with what generate_scenario did.
ApiResponds ==
    /\ pc = "done"
    /\ caller = "http"
    /\ http' = RespondTo(result)
    /\ pc' = "responded"
    /\ UNCHANGED <<caller, apiKey, request, difficulty, calls, response, result,
                   payloadIn, prompt>>

\* build_voice_agent_system_prompt on the payload generate_scenario returned.
ComposeGenerated ==
    /\ pc = "done"
    /\ caller = "direct"
    /\ result.kind = "return"
    /\ payloadIn' = result.payload
    /\ prompt' = BuildPrompt(result.payload)
    /\ pc' = "composed"
    /\ UNCHANGED <<caller, apiKey, request, difficulty, calls, response, result, http>>

\* build_voice_agent_system_prompt on a sample payload.
ComposeSample ==
    /\ pc = "idle"
    /\ \E present \in SUBSET Sections, style \in AbsentStyles, n \in 1..MaxItems,
          profile \in ProfileSamples :
          /\ n = 1 \/ profile = FullProfile
          /\ payloadIn' = SamplePayload(present, style, n, profile)
          /\ prompt' = BuildPrompt(payloadIn')
    /\ pc' = "composed"
    /\ caller' = "compose"
    /\ UNCHANGED <<apiKey, request, difficulty, calls, response, result, http>>

\* build_voice_agent_system_prompt on a payload with odd records.
ComposeSpecial ==
    /\ pc = "idle"
    /\ \E payload \in SpecialPayloads :
          /\ payloadIn' = payload
          /\ prompt' = BuildPrompt(payload)
    /\ pc' = "composed"
    /\ caller' = "compose"
    /\ UNCHANGED <<apiKey, request, difficulty, calls, response, result, http>>

\* build_voice_agent_system_prompt on a payload with any mix of profile fields.
ComposeProfile ==
    /\ pc = "idle"
    /\ \E name \in TextChoices("Maria"), age \in AgeChoices,
          emotion \in TextChoices("panicked"), gender \in {Absent, JStr(""), JStr("female")},
          race \in {Absent, JStr(""), JStr("Hispanic")},
          other \in TextChoices("speaks with an accent"), framed \in BOOLEAN :
          /\ payloadIn' = ProfilePayload(Obj([name |-> name, age |-> age,
                                              emotion |-> emotion, gender |-> gender,
                                              race |-> race,
                                              other_relevant_details |-> other]), framed)
          /\ prompt' = BuildPrompt(payloadIn')
    /\ pc' = "composed"
    /\ caller' = "compose"
    /\ UNCHANGED <<apiKey, request, difficulty, calls, response, result, http>>

Next ==
    \/ GenerateScenario
    \/ ApiScenariosGenerate
    \/ CallReturns
    \/ ApiResponds
    \/ ComposeGenerated
    \/ ComposeSample
    \/ ComposeSpecial
    \/ ComposeProfile

Spec == Init /\ [][Next]_vars

\* --------------------------------------------------------------------------
\* Claims about generate_scenario
\* --------------------------------------------------------------------------

\* The three difficulty literals.
ThreeLiterals ==
    {<<"e", "a", "s", "y">>, <<"m", "e", "d", "i", "u", "m">>, <<"h", "a", "r", "d">>}

\* generate_scenario has been invoked and has ended.
Ended == result.kind # "none"

\* The generated text as parsed (None when it does not parse).
ParsedText == IF response.kind = "text" THEN JsonLoads(response.text).v ELSE JNull

TextParses == response.kind = "text" /\ JsonLoads(response.text).ok

\* The scenario record of the generated text, empty when the key is missing.
RawScenario ==
    IF IsDict(ParsedText) /\ "scenario" \in DOMAIN ParsedText.d
    THEN ParsedText.d["scenario"] ELSE EmptyDict

\* C1: every payload that generate_scenario returns has scenario.language equal to
\* "en", whatever the generated text carried for it.
C1_LanguageIsEn ==
    result.kind = "return" =>
        /\ IsDict(result.payload)
        /\ "scenario" \in DOMAIN result.payload.d
        /\ IsDict(result.payload.d["scenario"])
        /\ "language" \in DOMAIN result.payload.d["scenario"].d
        /\ result.payload.d["scenario"].d["language"] = JStr("en")

\* C1's case: the generated text said "es" and generate_scenario returned.
C1_Witness ==
    /\ result.kind = "return"
    /\ Get(RawScenario, "language") = JStr("es")

\* C2 as claimed: whenever the generated text parses as one object, generate_scenario
\* returns, and the returned scenario.id is non-empty: the text's id when that is
\* non-empty, a generated "scenario-<8 hex>" otherwise.
C2_ObjectAlwaysNormalizes ==
    (Ended /\ TextParses /\ IsDict(ParsedText)) =>
        /\ result.kind = "return"
        /\ LET id == Get(Get(result.payload, "scenario"), "id") IN
           /\ Truthy(id)
           /\ Truthy(Get(RawScenario, "id")) => id = Get(RawScenario, "id")
           /\ ~Truthy(Get(RawScenario, "id")) => \E u \in UuidHex : id = JStr("scenario-" \o u)

\* The error the difficulty check raises (line 199).
InvalidDifficulty == Raise("ValueError", "difficulty must be one of: easy, medium, hard")

\* C3: generate_scenario ends with the difficulty check's error exactly when its
\* difficulty argument is not one of the three literals, whatever else fails.
C3_InvalidDifficultyIff ==
    Ended => (result = InvalidDifficulty <=> difficulty \notin ThreeLiterals)

\* C3's case: a direct call with "Easy", which is none of the three literals.
C3_Witness ==
    /\ Ended
    /\ difficulty = <<"E", "a", "s", "y">>
    /\ result = InvalidDifficulty

\* Why a generate_scenario call failed.
Cause ==
    CASE difficulty \notin ThreeLiterals -> "difficulty"
      [] difficulty \in ThreeLiterals /\ apiKey \in {JNull, JStr("")} -> "credentials"
      [] OTHER ->
           IF response.kind = "error" THEN "collaborator"
           ELSE IF response.kind = "text" /\ ~TextParses THEN "malformed"
           ELSE "other"

\* C4 as claimed: every failure has one of the four causes, and a caller can tell the
\* kinds apart: the clause that catches the difficulty error (except ValueError)
\* catches no failure of another cause, and a malformed text raises the parse error.
C4_FourDistinctKinds ==
    result.kind = "raise" =>
        /\ Cause \in {"difficulty", "credentials", "malformed", "collaborator"}
        /\ Cause = "difficulty" <=> IsValueError(result.cls)
        /\ Cause = "malformed" <=> result.cls = "JSONDecodeError"

\* C8 as claimed: the endpoint answers 400 exactly when the request's difficulty is
\* missing or invalid, 200 with the payload when generate_scenario returns, and 500
\* when generate_scenario fails for a valid difficulty.
C8_StatusByCause ==
    pc = "responded" =>
        LET dv    == Get(Or(request, EmptyDict), "difficulty")
            valid == dv.t = "chars" /\ Lower(Strip(dv.s)) \in ThreeLiterals
        IN /\ http.status \in 400..499 <=> ~valid
           /\ (valid /\ result.kind = "return") =>
                 (http.status = 200 /\ http.payload = result.payload)
           /\ (valid /\ result.kind = "raise") => http.status \in 500..599

\* C9: the returned payload differs from the parsed text at most in scenario.id and
\* scenario.language (and in having a scenario record at all).
C9_IdentityRepairOnly ==
    result.kind = "return" =>
        LET raw == ParsedText
            out == result.payload
        IN /\ IsDict(raw) /\ IsDict(out)
           /\ DOMAIN out.d = DOMAIN raw.d \cup {"scenario"}
           /\ \A k \in DOMAIN raw.d \ {"scenario"} : out.d[k] = raw.d[k]
           /\ IsDict(out.d["scenario"])
           /\ DOMAIN out.d["scenario"].d = DOMAIN RawScenario.d \cup {"id", "language"}
           /\ \A k \in DOMAIN RawScenario.d \ {"id", "language"} :
                 out.d["scenario"].d[k] = RawScenario.d[k]

\* C9's case: a text with other top-level fields and other scenario fields, and no id.
C9_Witness ==
    /\ result.kind = "return"
    /\ "role_instruction" \in DOMAIN ParsedText.d
    /\ "title" \in DOMAIN RawScenario.d
    /\ "id" \notin DOMAIN RawScenario.d

\* C10: at most one call of the collaborator per invocation; none unless the
\* difficulty is one of the three literals and the API key is set; exactly one once
\* both checks have passed, also when the call or the parsing of its answer fails.
C10_OneCallNoRetry ==
    /\ calls \in {0, 1}
    /\ calls = 1 => (difficulty \in ThreeLiterals /\ apiKey \notin {JNull, JStr("")})
    /\ (pc = "awaiting" \/ Ended) =>
          (calls = 1 <=> (difficulty \in ThreeLiterals /\ apiKey \notin {JNull, JStr("")}))

\* C10's case: the one call was made and its answer did not parse.
C10_Witness ==
    /\ calls = 1
    /\ result.kind = "raise"
    /\ result.cls = "JSONDecodeError"

\* --------------------------------------------------------------------------
\* Claims about build_voice_agent_system_prompt
\* --------------------------------------------------------------------------

\* The heading line of each section, in the fixed order.
HeadingLines ==
    <<"## Role",
      "## Caller personal details",
      "## Scenario summary (ground truth)",
      "## Critical information to convey (reveal when the operator asks; do not dump all at once)",
      "## Details that emerge with operator probing",
      "## Voice / how to speak",
      "## Dialogue / acting directions",
      "## How to react to the operator",
      "## Opening line",
      "## Do NOT say (stay in character)",
      "## Behavioral notes">>

IsHeading(line) == \E sec \in Sections : HeadingLines[sec] = line

\* The sections whose headings a text holds, in the order of the lines.
HeadingsIn(text) ==
    LET hs == SelectSeq(text, IsHeading) IN
    [i \in 1..Len(hs) |-> CHOOSE sec \in Sections : HeadingLines[sec] = hs[i]]

\* The field under each section: its holder's key path, and whether it is a list.
FieldOf(payload, sec) ==
    CASE sec = 1  -> Get(payload, "role_instruction")
      [] sec = 2  -> Get(Get(payload, "scenario"), "caller_profile")
      [] sec = 3  -> Get(payload, "scenario_summary_for_agent")
      [] sec = 4  -> Get(payload, "critical_info")
      [] sec = 5  -> Get(payload, "withheld_information")
      [] sec = 6  -> Get(Get(payload, "persona"), "voice_description")
      [] sec = 7  -> Get(payload, "dialogue_directions")
      [] sec = 8  -> Get(payload, "response_behavior")
      [] sec = 9  -> Get(payload, "opening_line")
      [] sec = 10 -> Get(payload, "do_not_say")
      [] sec = 11 -> Get(payload, "behavior_notes")

\* The section's underlying data is present and not empty.
HasData(payload, sec) ==
    LET v == FieldOf(payload, sec) IN
    CASE sec \in {4, 5, 8, 10} -> v.t = "list" /\ v.items # <<>>
      [] sec = 2 -> /\ v.t = "dict"
                    /\ \E i \in 1..Len(ProfileKeys) :
                          /\ ProfileKeys[i] \in DOMAIN v.d
                          /\ v.d[ProfileKeys[i]] \notin {JNull, JStr("")}
      [] OTHER -> v \notin {JNull, JStr(""), JNum(0), JList(<<>>), EmptyDict}

Composed == pc = "composed" /\ prompt.kind = "return"

IsIncreasing(seq) == \A i \in 1..Len(seq) - 1 : seq[i] < seq[i + 1]

\* C5: the headings in a prompt appear in the fixed order of the sections, each at
\* most once; with data for all eleven sections, all eleven appear.
C5_HeadingOrder ==
    Composed =>
        /\ IsIncreasing(HeadingsIn(prompt.text))
        /\ (\A sec \in Sections : HasData(payloadIn, sec)) =>
              HeadingsIn(prompt.text) = [i \in 1..11 |-> i]

\* C5's case: a prompt of a payload with data for all eleven sections.
C5_Witness ==
    /\ Composed
    /\ \A sec \in Sections : HasData(payloadIn, sec)

\* dict d without key k.
DropKey(d, k) == JDict([y \in DOMAIN d.d \ {k} |-> d.d[y]])

\* The payload without the field under a section.
RemoveField(payload, sec) ==
    CASE sec = 2 ->
           IF IsDict(Get(payload, "scenario"))
           THEN SetItem(payload, "scenario", DropKey(payload.d["scenario"], "caller_profile"))
           ELSE payload
      [] sec = 6 ->
           IF IsDict(Get(payload, "persona"))
           THEN SetItem(payload, "persona", DropKey(payload.d["persona"], "voice_description"))
           ELSE payload
      [] sec = 1  -> DropKey(payload, "role_instruction")
      [] sec = 3  -> DropKey(payload, "scenario_summary_for_agent")
      [] sec = 4  -> DropKey(payload, "critical_info")
      [] sec = 5  -> DropKey(payload, "withheld_information")
      [] sec = 7  -> DropKey(payload, "dialogue_directions")
      [] sec = 8  -> DropKey(payload, "response_behavior")
      [] sec = 9  -> DropKey(payload, "opening_line")
      [] sec = 10 -> DropKey(payload, "do_not_say")
      [] sec = 11 -> DropKey(payload, "behavior_notes")

Min(S) == CHOOSE m \in S : \A y \in S : m <= y

\* A text without a section: its heading line, the lines up to the next empty line,
\* and the one empty line that separated it from its neighbour.
CutSection(text, sec) ==
    LET at == {i \in 1..Len(text) : text[i] = HeadingLines[sec]} IN
    IF at = {} THEN text
    ELSE LET h      == Min(at)
             blanks == {i \in (h + 1)..Len(text) : text[i] = ""}
             e      == IF blanks = {} THEN Len(text) + 1 ELSE Min(blanks)
             before == SubSeq(text, 1, h - 2)
             after  == SubSeq(text, e + 1, Len(text))
             rest   == IF before = <<>> THEN after
                       ELSE IF after = <<>> THEN before
                       ELSE before \o <<"">> \o after
         IN IF rest = <<>> THEN <<"">> ELSE rest

\* C6: for each section, the prompt of the payload without that section's field is
\* the prompt of the payload with exactly that section cut out of it.
C6_OmissionLaw ==
    Composed =>
        \A sec \in Sections :
            BuildPrompt(RemoveField(payloadIn, sec))
                = PromptText(CutSection(prompt.text, sec))

\* C6's case: a prompt of at least three sections, one of them between two others.
C6_Witness ==
    /\ Composed
    /\ Len(HeadingsIn(prompt.text)) >= 3
    /\ \E sec \in Sections :
          /\ HasData(payloadIn, sec)
          /\ CutSection(prompt.text, sec) # prompt.text
          /\ HeadingsIn(prompt.text)[1] < sec
          /\ sec < HeadingsIn(prompt.text)[Len(HeadingsIn(prompt.text))]

\* A record field that is missing, None, or a record (possibly empty).
RecordOrNone(v) == v = JNull \/ v.t = "dict"

\* A payload whose records are each absent, None, empty or a record.
TolerablePayload(payload) ==
    /\ payload.t = "dict"
    /\ RecordOrNone(Get(payload, "scenario"))
    /\ RecordOrNone(Get(Get(payload, "scenario"), "caller_profile"))
    /\ RecordOrNone(Get(payload, "persona"))

\* C7: build_voice_agent_system_prompt returns a text, without raising, for every
\* payload whose fields are absent, None or empty in any combination, and returns
\* the empty text when no section has data.
C7_NeverFails ==
    (pc = "composed" /\ TolerablePayload(payloadIn)) =>
        /\ prompt.kind = "return"
        /\ (\A sec \in Sections : ~HasData(payloadIn, sec)) => prompt.text = <<"">>

\* C7's case: scenario and persona are None, no section has data, the empty text.
C7_Witness ==
    /\ pc = "composed"
    /\ IsDict(payloadIn)
    /\ "scenario" \in DOMAIN payloadIn.d
    /\ payloadIn.d["scenario"] = JNull
    /\ prompt = PromptText(<<"">>)

\* The caller profile's fields, in the order of the bullets.
BulletOrder == <<"name", "age", "emotion", "gender", "race", "other_relevant_details">>

\* The caller profile of a payload, as a record (empty when there is none).
ProfileIn(payload) ==
    LET v == Get(Get(payload, "scenario"), "caller_profile") IN
    IF v.t = "dict" THEN v ELSE EmptyDict

\* The field is present with a value that is neither None nor the empty string.
HasDetail(profile, key) ==
    key \in DOMAIN profile.d /\ profile.d[key] \notin {JNull, JStr("")}

\* A value as a bullet shows it: a string as it is, a number in decimal.
Shown(v) == IF v.t = "num" THEN ToString(v.n) ELSE v.s

\* The bullets the profile calls for.
ExpectedBullets(profile) ==
    LET Kept(key) == HasDetail(profile, key)
        keys      == SelectSeq(BulletOrder, Kept)
    IN [i \in 1..Len(keys) |-> "- " \o keys[i] \o ": " \o Shown(profile.d[keys[i]])]

\* The lines of a section in a text: from its heading up to the next empty line.
SectionLines(text, sec) ==
    LET at == {i \in 1..Len(text) : text[i] = HeadingLines[sec]} IN
    IF at = {} THEN <<>>
    ELSE LET h      == Min(at)
             blanks == {i \in (h + 1)..Len(text) : text[i] = ""}
             e      == IF blanks = {} THEN Len(text) + 1 ELSE Min(blanks)
         IN SubSeq(text, h, e - 1)

\* C11: the Caller personal details section holds one bullet for each profile field
\* whose value is present and not the empty string, in the order name, age, emotion,
\* gender, race, other_relevant_details (an age of 0 has its bullet); the section,
\* heading included, is left out exactly when there is no bullet.
C11_ProfileBullets ==
    Composed =>
        LET bullets == ExpectedBullets(ProfileIn(payloadIn)) IN
        SectionLines(prompt.text, 2) =
            IF bullets = <<>> THEN <<>> ELSE <<"## Caller personal details">> \o bullets

\* C11's case: an age of 0 and an empty name beside other details.
C11_Witness ==
    /\ Composed
    /\ Get(ProfileIn(payloadIn), "age") = JNum(0)
    /\ Get(ProfileIn(payloadIn), "name") = JStr("")
    /\ Len(SectionLines(prompt.text, 2)) >= 3
====
